---------------------------- MODULE Spec2Model ----------------------------
(***************************************************************************)
(* Production-hardening layer of the restaurant browser agent              *)
(* (wei-prototype/browser-use/production_utils.py): the error taxonomy,    *)
(* the exception classifier, the retry policy, the circuit breaker,        *)
(* safe_async_operation and the request validators; and the                *)
(* make-reservation action of restaurant_kernel_agent.py.                  *)
(***************************************************************************)
EXTENDS Integers, Sequences, FiniteSets, TLC

(***************************************************************************)
(* Bounds of the model.                                                    *)
(***************************************************************************)
NumCallers == 2
MaxTime == 3
MaxCalls == 5
MaxThreshold == 2
MaxRecovery == 2

Callers == 1..NumCallers

None == "None"

\* self.last_failure_time = None: no failure recorded yet
NoTime == -1

(***************************************************************************)
(* Error taxonomy.  An exception is a record of its class, its message     *)
(* (what str() returns) and, for AgentError and its subclasses, its        *)
(* category; other exceptions carry no category.                           *)
(***************************************************************************)
\* class ErrorCategory(Enum)
ErrorCategory ==
    {"retryable_network", "retryable_browser", "retryable_timeout",
     "non_retryable_validation", "non_retryable_auth",
     "non_retryable_permanent", "unknown"}

\* AgentError.__init__(message, category)
AgentError(message, category) ==
    [cls |-> "AgentError", message |-> message, category |-> category]

\* ValidationError.__init__(message)
ValidationError(message) ==
    [cls |-> "ValidationError", message |-> message,
     category |-> "non_retryable_validation"]

\* BrowserError.__init__(message, retryable)
BrowserError(message, retryable) ==
    [cls |-> "BrowserError", message |-> message,
     category |-> IF retryable THEN "retryable_browser"
                  ELSE "non_retryable_permanent"]

\* TimeoutError.__init__(message, timeout_seconds)
TimeoutError(message) ==
    [cls |-> "TimeoutError", message |-> message,
     category |-> "retryable_timeout"]

\* NetworkError.__init__(message)
NetworkError(message) ==
    [cls |-> "NetworkError", message |-> message,
     category |-> "retryable_network"]

\* an exception that is not an AgentError: Exception(message), ValueError(message)
PlainException(cls, message) ==
    [cls |-> cls, message |-> message, category |-> None]

\* isinstance(e, AgentError)
IsAgentError(e) ==
    e.cls \in {"AgentError", "ValidationError", "BrowserError",
               "TimeoutError", "NetworkError"}

(***************************************************************************)
(* Strings: str.lower() and the substring test "pattern in message".       *)
(***************************************************************************)
UpperLetters == "ABCDEFGHIJKLMNOPQRSTUVWXYZ"
LowerLetters == "abcdefghijklmnopqrstuvwxyz"

LowerChar(ch) ==
    IF \E i \in 1..Len(UpperLetters) : SubSeq(UpperLetters, i, i) = ch
    THEN LET i == CHOOSE j \in 1..Len(UpperLetters) :
                     SubSeq(UpperLetters, j, j) = ch
         IN  SubSeq(LowerLetters, i, i)
    ELSE ch

\* s.lower(), character by character (the string is split in halves to
\* keep the recursion shallow)
RECURSIVE Lower(_)
Lower(s) ==
    IF Len(s) = 0 THEN ""
    ELSE IF Len(s) = 1 THEN LowerChar(s)
    ELSE LET h == Len(s) \div 2
         IN  Lower(SubSeq(s, 1, h)) \o Lower(SubSeq(s, h + 1, Len(s)))

\* pattern in s
Contains(s, pattern) ==
    \E i \in 1..(Len(s) - Len(pattern) + 1) :
        SubSeq(s, i, i + Len(pattern) - 1) = pattern

\* any(pattern in s for pattern in patterns)
AnyPattern(s, patterns) ==
    \E k \in DOMAIN patterns : Contains(s, patterns[k])

(***************************************************************************)
(* categorize_exception and should_retry_error.                            *)
(***************************************************************************)
network_patterns ==
    <<"connection", "timeout", "network", "dns", "socket",
      "unreachable", "reset", "refused", "unavailable">>

browser_patterns ==
    <<"browser", "chromium", "playwright", "page", "element",
      "navigation", "screenshot", "session">>

auth_patterns ==
    <<"auth", "unauthorized", "forbidden", "invalid key", "invalid token">>

validation_patterns ==
    <<"validation", "invalid", "malformed", "required", "missing">>

\* categorize_exception with the browser group tested before the network
\* group (not the source's order)
categorize_exception_browser_first(exception) ==
    LET error_message == Lower(exception.message)
    IN  IF AnyPattern(error_message, browser_patterns)
        THEN "retryable_browser"
        ELSE IF AnyPattern(error_message, network_patterns)
        THEN "retryable_network"
        ELSE IF AnyPattern(error_message, auth_patterns)
        THEN "non_retryable_auth"
        ELSE IF AnyPattern(error_message, validation_patterns)
        THEN "non_retryable_validation"
        ELSE "unknown"

\* categorize_exception(exception)
categorize_exception(exception) ==
    LET error_message == Lower(exception.message)
    IN  IF AnyPattern(error_message, network_patterns)
        THEN "retryable_network"
        ELSE IF AnyPattern(error_message, browser_patterns)
        THEN "retryable_browser"
        ELSE IF AnyPattern(error_message, auth_patterns)
        THEN "non_retryable_auth"
        ELSE IF AnyPattern(error_message, validation_patterns)
        THEN "non_retryable_validation"
        ELSE "unknown"

RetryableCategories ==
    {"retryable_network", "retryable_browser", "retryable_timeout"}

\* should_retry_error(error)
should_retry_error(error) ==
    IF IsAgentError(error)
    THEN error.category \in RetryableCategories
    ELSE categorize_exception(error) \in RetryableCategories

(***************************************************************************)
(* CircuitBreaker.  The breaker object is the record cb; the configuration *)
(* (failure_threshold, recovery_timeout) is fixed at construction.         *)
(* Callers are asyncio tasks: a task runs without interruption between two *)
(* awaits, and the only await of the wrapper is the wrapped operation.     *)
(***************************************************************************)
\* cb       the breaker object
\* now      the value time.time() returns
\* pc       per caller: "idle", or "inflight" inside "await func(...)"
\* outcome  per caller: how its last call ended
\* invoked  number of invocations of the wrapped operation so far
\* consec   number of failures since the last success (history)
\* probe    per caller: its call in flight moved the breaker to HALF_OPEN
\* last     the last step taken, with the state and count it started from
VARIABLES cb, now, pc, outcome, invoked, consec, probe, last

\* the exception under classification, the classifier's and the retry
\* decision's results, and the position of the classification
VARIABLES c_err, c_cat, c_retry, c_pc

\* one call of a function decorated with production_retry: the library
\* build, max_attempts, min_wait_seconds, max_wait_seconds,
\* exponential_base, jitter, what the operation does on each invocation,
\* the position of the retry loop, the attempt number, the number of
\* invocations, the outcome of the last attempt, the waits of the retry
\* loop so far and the caller's result
VARIABLES r_build, r_max, r_min, r_maxw, r_base, r_jitter, r_script, r_pc,
          r_attempt, r_calls, r_outcome, r_waits,
          r_result

\* one call of safe_async_operation: the name of the operation, what the
\* operation does, the position of the call and what the caller gets
VARIABLES s_name, s_op, s_pc, s_result

\* the calls of the layered operation: the position of the breaker's
\* wrapper, what the caller gets, and the number of the call
VARIABLES ch_pc, ch_result, ch_call

\* one call of a validator of RequestValidator: which validator, the value
\* it is given, the position, what it returns or raises, and what it returns
\* or raises when given its own result
VARIABLES v_fn, v_in, v_pc, v_out, v_again

\* one make-reservation request: whether the API keys are set, whether
\* production_utils can be imported, the payload, the position of the
\* action, the validated parameters, the last exception raised, the number
\* of attempts of create_kernel_browser_session, of Kernel browsers created
\* and deleted, and the response returned
VARIABLES m_env, m_utils, m_payload, m_pc, m_params, m_error, m_attempts,
          m_created, m_deleted, m_response

\* an ApplicationMonitor: its counters of operations per outcome and of
\* errors per operation, the alerts its alert handlers have received, and
\* the number of record_operation calls so far
VARIABLES operation_counts, error_counts, alert_calls, recorded

cbVars == <<cb, now, pc, outcome, invoked, consec, probe, last>>

clVars == <<c_err, c_cat, c_retry, c_pc>>

rtVars == <<r_build, r_max, r_min, r_maxw, r_base, r_jitter, r_script, r_pc,
            r_attempt, r_calls, r_outcome, r_waits, r_result>>

saVars == <<s_name, s_op, s_pc, s_result>>

chVars == <<ch_pc, ch_result, ch_call>>

vaVars == <<v_fn, v_in, v_pc, v_out, v_again>>

mkVars == <<m_env, m_utils, m_payload, m_pc, m_params, m_error, m_attempts,
            m_created, m_deleted, m_response>>

moVars == <<operation_counts, error_counts, alert_calls, recorded>>

vars == <<cbVars, clVars, rtVars, saVars, chVars, vaVars, mkVars, moVars>>

notCB == <<clVars, rtVars, saVars, chVars, vaVars, mkVars, moVars>>

notCL == <<cbVars, rtVars, saVars, chVars, vaVars, mkVars, moVars>>

notRT == <<cbVars, clVars, saVars, chVars, vaVars, mkVars, moVars>>

notSA == <<cbVars, clVars, rtVars, chVars, vaVars, mkVars, moVars>>

notCH == <<cbVars, clVars, rtVars, saVars, vaVars, mkVars, moVars>>

notVA == <<cbVars, clVars, rtVars, saVars, chVars, mkVars, moVars>>

notMK == <<cbVars, clVars, rtVars, saVars, chVars, vaVars, moVars>>

notMO == <<cbVars, clVars, rtVars, saVars, chVars, vaVars, mkVars>>

notCBCH == <<clVars, rtVars, saVars, vaVars, mkVars, moVars>>

notChain == <<clVars, saVars, vaVars, mkVars, moVars>>

\* CircuitBreaker.__init__
CircuitBreaker(threshold, recovery) ==
    [failure_threshold |-> threshold,
     recovery_timeout  |-> recovery,
     failure_count     |-> 0,
     last_failure_time |-> NoTime,
     state             |-> "CLOSED"]

\* CircuitBreaker._should_attempt_reset, with time.time() = t
should_attempt_reset(b, t) ==
    IF b.last_failure_time = NoTime
    THEN TRUE
    ELSE t - b.last_failure_time >= b.recovery_timeout

\* _on_success that forgets to reset failure_count
on_success_keep(b) ==
    [b EXCEPT !.state = IF b.state = "HALF_OPEN" THEN "CLOSED" ELSE @]

\* CircuitBreaker._on_success
on_success(b) ==
    [b EXCEPT !.state = IF b.state = "HALF_OPEN" THEN "CLOSED" ELSE @,
              !.failure_count = 0]

\* _on_failure comparing with > : opens one failure late
on_failure_gt(b, t) ==
    LET n == b.failure_count + 1
    IN  [b EXCEPT !.failure_count = n,
                  !.last_failure_time = t,
                  !.state = IF n > b.failure_threshold THEN "OPEN" ELSE @]

\* _on_failure that reopens a HalfOpen breaker without counting the failure
on_failure_nocount(b, t) ==
    LET n == IF b.state = "HALF_OPEN" THEN b.failure_count
             ELSE b.failure_count + 1
    IN  [b EXCEPT !.failure_count = n,
                  !.last_failure_time = t,
                  !.state = IF n >= b.failure_threshold \/ b.state = "HALF_OPEN"
                            THEN "OPEN" ELSE @]

\* CircuitBreaker._on_failure, with time.time() = t
on_failure(b, t) ==
    LET n == b.failure_count + 1
    IN  [b EXCEPT !.failure_count = n,
                  !.last_failure_time = t,
                  !.state = IF n >= b.failure_threshold THEN "OPEN" ELSE @]

\* The error the wrapper raises when it blocks a call.
BreakerOpenError ==
    AgentError("Circuit breaker is OPEN - requests blocked",
               "non_retryable_permanent")

\* The failures of the wrapped operation, as the breaker sees them.
OperationError == PlainException("Exception", "operation failed")

CancelledError == PlainException("CancelledError", "")

NoOutcome == [kind |-> "none"]
Returned == [kind |-> "returned"]
Raised(e) == [kind |-> "raised", err |-> e]

Step(op, c) ==
    [op |-> op, c |-> c, from |-> cb.state, count0 |-> cb.failure_count]

\* wrapper, up to "await func(*args, **kwargs)": the call is blocked
WrapperReject(c) ==
    /\ pc[c] = "idle"
    /\ cb.state = "OPEN"
    /\ ~should_attempt_reset(cb, now)
    /\ outcome' = [outcome EXCEPT ![c] = Raised(BreakerOpenError)]
    /\ last' = Step("reject", c)
    /\ UNCHANGED <<cb, now, pc, invoked, consec, probe>>
    /\ UNCHANGED notCB

\* wrapper, up to "await func(*args, **kwargs)": the call goes through
WrapperEnter(c) ==
    /\ pc[c] = "idle"
    /\ invoked < MaxCalls
    /\ cb.state = "OPEN" => should_attempt_reset(cb, now)
    /\ cb' = [cb EXCEPT !.state = IF cb.state = "OPEN" THEN "HALF_OPEN" ELSE @]
    /\ probe' = [probe EXCEPT ![c] = (cb.state = "OPEN")]
    /\ pc' = [pc EXCEPT ![c] = "inflight"]
    /\ outcome' = [outcome EXCEPT ![c] = NoOutcome]
    /\ invoked' = invoked + 1
    /\ last' = Step("enter", c)
    /\ UNCHANGED <<now, consec>>
    /\ UNCHANGED notCB

\* the wrapped operation returns: self._on_success(); return result
OpSucceeds(c) ==
    /\ pc[c] = "inflight"
    /\ cb' = on_success(cb)
    /\ pc' = [pc EXCEPT ![c] = "idle"]
    /\ outcome' = [outcome EXCEPT ![c] = Returned]
    /\ consec' = 0
    /\ last' = Step("success", c)
    /\ UNCHANGED <<now, invoked, probe>>
    /\ UNCHANGED notCB

\* the wrapped operation raises expected_exception: self._on_failure(); raise
OpFails(c) ==
    /\ pc[c] = "inflight"
    /\ cb' = on_failure(cb, now)
    /\ pc' = [pc EXCEPT ![c] = "idle"]
    /\ outcome' = [outcome EXCEPT ![c] = Raised(OperationError)]
    /\ consec' = consec + 1
    /\ last' = Step("failure", c)
    /\ UNCHANGED <<now, invoked, probe>>
    /\ UNCHANGED notCB

\* a wrapper that counts a cancellation as a failure
OpAborts_counted(c) ==
    /\ pc[c] = "inflight"
    /\ cb' = on_failure(cb, now)
    /\ pc' = [pc EXCEPT ![c] = "idle"]
    /\ outcome' = [outcome EXCEPT ![c] = Raised(CancelledError)]
    /\ last' = Step("abort", c)
    /\ UNCHANGED <<now, invoked, consec, probe>>
    /\ UNCHANGED notCB

\* the wrapped operation ends with an exception that is not an instance of
\* expected_exception (task cancellation): no handler of the wrapper runs
OpAborts(c) ==
    /\ pc[c] = "inflight"
    /\ pc' = [pc EXCEPT ![c] = "idle"]
    /\ outcome' = [outcome EXCEPT ![c] = Raised(CancelledError)]
    /\ last' = Step("abort", c)
    /\ UNCHANGED <<cb, now, invoked, consec, probe>>
    /\ UNCHANGED notCB

\* time.time() advances
Tick ==
    /\ now < MaxTime
    /\ now' = now + 1
    /\ last' = Step("tick", 0)
    /\ UNCHANGED <<cb, pc, outcome, invoked, consec, probe>>
    /\ UNCHANGED notCB

NextCB ==
    \/ \E c \in Callers : WrapperReject(c)
    \/ \E c \in Callers : WrapperEnter(c)
    \/ \E c \in Callers : OpSucceeds(c)
    \/ \E c \in Callers : OpFails(c)
    \/ \E c \in Callers : OpAborts(c)
    \/ Tick

(***************************************************************************)
(* Classification of one exception: categorize_exception, then             *)
(* should_retry_error, applied to an exception drawn from Errors.          *)
(***************************************************************************)
Messages ==
    {"connection timeout", "playwright timeout", "browser crashed",
     "unauthorized access", "invalid api key", "Invalid input",
     "required field missing", "some random error", "Network issue",
     "Permanent failure", "Invalid browser configuration",
     "DNS resolution failed"}

Errors ==
    {AgentError(m, k) : m \in Messages, k \in ErrorCategory}
      \cup {ValidationError(m) : m \in Messages}
      \cup {BrowserError(m, r) : m \in Messages, r \in BOOLEAN}
      \cup {TimeoutError(m) : m \in Messages}
      \cup {NetworkError(m) : m \in Messages}
      \cup {PlainException(k, m) : k \in {"Exception", "ValueError"},
                                   m \in Messages}

\* category = categorize_exception(c_err)
Categorize ==
    /\ c_pc = "start"
    /\ c_cat' = categorize_exception(c_err)
    /\ c_pc' = "categorized"
    /\ UNCHANGED <<c_err, c_retry>>
    /\ UNCHANGED notCL

\* should_retry_error(c_err)
ShouldRetry ==
    /\ c_pc = "categorized"
    /\ c_retry' = should_retry_error(c_err)
    /\ c_pc' = "done"
    /\ UNCHANGED <<c_err, c_cat>>
    /\ UNCHANGED notCL

NextCL == Categorize \/ ShouldRetry

(***************************************************************************)
(* production_retry.  The decorator is tenacity's retry(stop, wait, retry)  *)
(* and its behaviour depends on the installed tenacity:                    *)
(*   wait_rejects_jitter  wait_exponential() has no keyword jitter, so      *)
(*                        production_retry(...) raises TypeError and        *)
(*                        nothing is decorated;                            *)
(*   state_repr           the decorator is built; tenacity calls the retry *)
(*                        predicate with its RetryCallState, whose str()    *)
(*                        names the class and the message of the failure;  *)
(*   state_opaque         the same, RetryCallState having the default       *)
(*                        object repr.                                     *)
(* No reraise=True is passed, so on exhaustion tenacity raises RetryError.  *)
(***************************************************************************)
MaxAttempts == 3

Builds == {"wait_rejects_jitter", "state_repr", "state_opaque"}

Ok == [kind |-> "ok"]
Fails(e) == [kind |-> "error", err |-> e]

\* what the decorated operation may do on one invocation
Outcomes ==
    {Ok,
     Fails(NetworkError("temporary network issue")),
     Fails(AgentError("Service busy", "retryable_network")),
     Fails(ValidationError("invalid input")),
     Fails(BrowserError("Invalid browser configuration", FALSE)),
     Fails(PlainException("Exception", "some random error"))}

Scripts == [1..MaxAttempts -> Outcomes]

Digits == <<"1", "2", "3", "4", "5", "6", "7", "8", "9">>

\* the RetryCallState that tenacity hands to the retry predicate, as
\* should_retry_error sees it: not an AgentError, and str() as the build
\* gives it (the object id and the time slept are digits only)
RetryCallState(build, attempt, e) ==
    [cls |-> "RetryCallState",
     message |->
        IF build = "state_repr"
        THEN "<RetryCallState 140: attempt #" \o Digits[attempt]
                \o "; slept for 0.0; last result: failed ("
                \o e.cls \o " " \o e.message \o ")>"
        ELSE "<tenacity.RetryCallState object at 0x7f3a5c1d2e80>",
     category |-> None]

\* retry=retry_if_exception_type(Exception) & should_retry_error, on a
\* failed attempt (every failure of the model is an Exception)
RetryPredicate(build, attempt, e) ==
    should_retry_error(RetryCallState(build, attempt, e))

\* stop=stop_after_attempt(max_attempts)
StopAfterAttempt(max_attempts, attempt) == attempt >= max_attempts

\* tenacity.RetryError(last_attempt), raised when the attempts are used up
RetryError(e) ==
    [cls |-> "RetryError",
     message |-> "RetryError[<Future state=finished raised " \o e.cls \o ">]",
     category |-> None,
     last_attempt |-> e]

JitterTypeError ==
    PlainException("TypeError",
                   "__init__() got an unexpected keyword argument 'jitter'")

\* the values given to min_wait_seconds, max_wait_seconds and
\* exponential_base (in units of the smallest of them)
MinWaits == {1, 2}
MaxWaits == {3}
Bases == {1, 2}

RECURSIVE Pow(_, _)
Pow(base, k) == IF k = 0 THEN 1 ELSE base * Pow(base, k - 1)

Min(a, b) == IF a <= b THEN a ELSE b

\* wait=wait_exponential(multiplier=min_wait_seconds, max=max_wait_seconds,
\* exp_base=exponential_base) after attempt number n: the multiplier
\* times exp_base ** (n - 1), at most max
wait_exponential(multiplier, max, exp_base, n) ==
    Min(multiplier * Pow(exp_base, n - 1), max)

\* the waits the retry loop may perform after attempt number n: the
\* exponential wait and, with jitter=True on a build that accepts the
\* keyword, a random amount below it on top
Wait(multiplier, max, exp_base, jitter, n) ==
    LET seconds == wait_exponential(multiplier, max, exp_base, n)
    IN  IF jitter THEN {seconds + j : j \in 0..(seconds - 1)}
        ELSE {seconds}

\* production_retry(max_attempts=r_max) is evaluated and the decorated
\* function is called
Decorate ==
    /\ r_pc = "decorate"
    /\ IF r_build = "wait_rejects_jitter"
       THEN /\ r_result' = Raised(JitterTypeError)
            /\ r_pc' = "done"
       ELSE /\ r_pc' = "attempt"
            /\ UNCHANGED r_result
    /\ UNCHANGED <<r_build, r_max, r_min, r_maxw, r_base, r_jitter,
                   r_script, r_attempt, r_calls, r_outcome, r_waits>>
    /\ UNCHANGED notRT

\* the retry loop invokes the operation
Attempt ==
    /\ r_pc = "attempt"
    /\ r_calls' = r_calls + 1
    /\ r_outcome' = r_script[r_calls + 1]
    /\ r_pc' = "decide"
    /\ UNCHANGED <<r_build, r_max, r_min, r_maxw, r_base, r_jitter,
                   r_script, r_attempt, r_result, r_waits>>
    /\ UNCHANGED notRT

\* the attempt returned: its result is the caller's
DecideReturn ==
    /\ r_pc = "decide"
    /\ r_outcome = Ok
    /\ r_result' = Returned
    /\ r_pc' = "done"
    /\ UNCHANGED <<r_build, r_max, r_min, r_maxw, r_base, r_jitter,
                   r_script, r_attempt, r_calls, r_outcome, r_waits>>
    /\ UNCHANGED notRT

\* the attempt failed and the retry predicate is false: the failure is
\* re-raised to the caller
DecidePropagate ==
    /\ r_pc = "decide"
    /\ r_outcome # Ok
    /\ ~RetryPredicate(r_build, r_attempt, r_outcome.err)
    /\ r_result' = Raised(r_outcome.err)
    /\ r_pc' = "done"
    /\ UNCHANGED <<r_build, r_max, r_min, r_maxw, r_base, r_jitter,
                   r_script, r_attempt, r_calls, r_outcome, r_waits>>
    /\ UNCHANGED notRT

\* the attempt failed, the retry predicate is true and the attempts are
\* used up: RetryError is raised
DecideExhausted ==
    /\ r_pc = "decide"
    /\ r_outcome # Ok
    /\ RetryPredicate(r_build, r_attempt, r_outcome.err)
    /\ StopAfterAttempt(r_max, r_attempt)
    /\ r_result' = Raised(RetryError(r_outcome.err))
    /\ r_pc' = "done"
    /\ UNCHANGED <<r_build, r_max, r_min, r_maxw, r_base, r_jitter,
                   r_script, r_attempt, r_calls, r_outcome, r_waits>>
    /\ UNCHANGED notRT

\* the attempt failed, the retry predicate is true and attempts remain:
\* the loop waits
DecideSleep ==
    /\ r_pc = "decide"
    /\ r_outcome # Ok
    /\ RetryPredicate(r_build, r_attempt, r_outcome.err)
    /\ ~StopAfterAttempt(r_max, r_attempt)
    /\ \E seconds \in Wait(r_min, r_maxw, r_base, r_jitter, r_attempt) :
          r_waits' = Append(r_waits, seconds)
    /\ r_pc' = "sleep"
    /\ UNCHANGED <<r_build, r_max, r_min, r_maxw, r_base, r_jitter,
                   r_script, r_attempt, r_calls, r_outcome, r_result>>
    /\ UNCHANGED notRT

\* the wait is over: next attempt
Sleep ==
    /\ r_pc = "sleep"
    /\ r_attempt' = r_attempt + 1
    /\ r_pc' = "attempt"
    /\ UNCHANGED <<r_build, r_max, r_min, r_maxw, r_base, r_jitter,
                   r_script, r_calls, r_outcome, r_result, r_waits>>
    /\ UNCHANGED notRT

NextRT ==
    \/ Decorate
    \/ Attempt
    \/ DecideReturn
    \/ DecidePropagate
    \/ DecideExhausted
    \/ DecideSleep
    \/ Sleep

(***************************************************************************)
(* safe_async_operation: the operation is an async function, named by its  *)
(* __name__, that returns a value or raises.                               *)
(***************************************************************************)
\* AgentError.__init__(message, category, original_error=...)
AgentErrorFrom(message, category, original_error) ==
    [cls |-> "AgentError", message |-> message, category |-> category,
     original_error |-> original_error]

\* isinstance(e, Exception): asyncio.CancelledError derives from
\* BaseException only
IsException(e) == e.cls # "CancelledError"

\* the operation returns value
Returns(value) == [kind |-> "ok", value |-> value]

\* safe_async_operation that returns None when the operation fails
safe_async_operation_swallow(name, o) ==
    IF o.kind = "ok" THEN o ELSE Returns(None)

\* safe_async_operation(operation), operation.__name__ being name and o
\* what "await operation(*args, **kwargs)" does
safe_async_operation(name, o) ==
    IF o.kind = "ok" THEN o
    ELSE IF ~IsException(o.err) THEN o
    ELSE Fails(AgentErrorFrom(
                  "Operation " \o name \o " failed: " \o o.err.message,
                  categorize_exception(o.err),
                  o.err))

OperationNames == {"successful_op", "failing_op", "complex_operation"}

OperationValues == {"processed: test", "success after retries", None}

\* what the operation handed to safe_async_operation may do
SafeOutcomes ==
    {Returns(v) : v \in OperationValues}
      \cup {Fails(e) : e \in Errors}
      \cup {Fails(PlainException("ValueError", "original error")),
            Fails(CancelledError)}

\* await safe_async_operation(operation)
SafeCall ==
    /\ s_pc = "start"
    /\ s_result' = safe_async_operation(s_name, s_op)
    /\ s_pc' = "done"
    /\ UNCHANGED <<s_name, s_op>>
    /\ UNCHANGED notSA

NextSA == SafeCall

(***************************************************************************)
(* The layered call of test_layered_error_handling:                        *)
(*     @breaker                                                            *)
(*     @production_retry(max_attempts=r_max)                               *)
(*     async def wrapped_operation():                                      *)
(*         return await safe_async_operation(complex_operation)            *)
(* called on a fresh breaker; r_script is what complex_operation does on    *)
(* each invocation of the first call.  As in                                *)
(* test_circuit_breaker_with_retry_interaction the layered operation is     *)
(* called a second time, after the recovery timeout and with the raw        *)
(* operation recovered.  The retry loop is production_retry's (Decorate,    *)
(* Decide..., Sleep); only the attempt differs, which goes through          *)
(* safe_async_operation.                                                   *)
(***************************************************************************)
ChainOutcomes ==
    {Ok,
     Fails(NetworkError("network timeout")),
     Fails(BrowserError("browser connection lost", TRUE)),
     Fails(AgentError("Service busy", "retryable_network")),
     Fails(ValidationError("invalid input"))}

ChainScripts == [1..MaxAttempts -> ChainOutcomes]

\* CircuitBreaker(failure_threshold=3, ...) of the interaction test
InteractionThreshold == 3

\* breaker wrapper, up to "await func(*args, **kwargs)"
ChainEnter ==
    /\ ch_pc = "call"
    /\ r_pc = "attempt"
    /\ IF cb.state = "OPEN" /\ ~should_attempt_reset(cb, now)
       THEN /\ ch_result' = Raised(BreakerOpenError)
            /\ ch_pc' = "done"
            /\ UNCHANGED cb
       ELSE /\ cb' = [cb EXCEPT !.state = IF cb.state = "OPEN"
                                          THEN "HALF_OPEN" ELSE @]
            /\ ch_pc' = "inflight"
            /\ UNCHANGED ch_result
    /\ UNCHANGED <<now, pc, outcome, invoked, consec, probe, last, ch_call>>
    /\ UNCHANGED notCBCH

\* the retry loop invokes wrapped_operation's body:
\* await safe_async_operation(complex_operation); in the second call of
\* the layered operation the raw operation has recovered
ChainAttempt ==
    /\ ch_pc = "inflight"
    /\ r_pc = "attempt"
    /\ r_calls' = r_calls + 1
    /\ r_outcome' = safe_async_operation("complex_operation",
                                         IF ch_call = 1
                                         THEN r_script[r_calls + 1]
                                         ELSE Ok)
    /\ r_pc' = "decide"
    /\ UNCHANGED <<r_build, r_max, r_min, r_maxw, r_base, r_jitter,
                   r_script, r_attempt, r_result, r_waits>>
    /\ UNCHANGED notRT

\* breaker wrapper, after "await func(*args, **kwargs)": _on_success and
\* return, or _on_failure and raise (expected_exception is Exception)
ChainExit ==
    /\ ch_pc = "inflight"
    /\ r_pc = "done"
    /\ cb' = IF r_result.kind = "returned" THEN on_success(cb)
             ELSE on_failure(cb, now)
    /\ ch_result' = r_result
    /\ ch_pc' = "done"
    /\ UNCHANGED <<now, pc, outcome, invoked, consec, probe, last, ch_call>>
    /\ UNCHANGED notCBCH

\* after the first call of the layered operation: the caller sleeps for
\* twice the recovery timeout, the raw operation recovers, and the layered
\* operation is called again
ChainRecover ==
    /\ ch_pc = "done"
    /\ ch_call = 1
    /\ now' = now + 2 * cb.recovery_timeout
    /\ ch_call' = 2
    /\ ch_pc' = "call"
    /\ ch_result' = NoOutcome
    /\ r_pc' = "attempt"
    /\ r_attempt' = 1
    /\ r_calls' = 0
    /\ r_outcome' = NoOutcome
    /\ r_waits' = <<>>
    /\ r_result' = NoOutcome
    /\ UNCHANGED <<cb, pc, outcome, invoked, consec, probe, last>>
    /\ UNCHANGED <<r_build, r_max, r_min, r_maxw, r_base, r_jitter, r_script>>
    /\ UNCHANGED notChain

NextChain ==
    \/ Decorate
    \/ ChainEnter
    \/ ChainAttempt
    \/ DecideReturn
    \/ DecidePropagate
    \/ DecideExhausted
    \/ DecideSleep
    \/ Sleep
    \/ ChainExit
    \/ ChainRecover

(***************************************************************************)
(* RequestValidator.  A value handed to a validator is a string, an int, a *)
(* float (given in tenths), the float infinity or None.                    *)
(***************************************************************************)
PyStr(v) == [t |-> "str", v |-> v]
PyInt(n) == [t |-> "int", v |-> n]
PyFloat(tenths) == [t |-> "float", tenths |-> tenths]
PyFloatInf == [t |-> "float_inf"]
PyNone == [t |-> "none"]

\* ValidationError.__init__(message, field, value)
ValidationErrorFor(message, field, value) ==
    [cls |-> "ValidationError", message |-> message,
     category |-> "non_retryable_validation",
     context |-> [field |-> field, value |-> value]]

DigitChars == "0123456789"
Whitespace == " \t\n"

Char(s, i) == SubSeq(s, i, i)

\* ch is one of the characters of set
InClass(ch, set) == \E i \in 1..Len(set) : Char(set, i) = ch

\* s.strip()
Strip(s) ==
    LET keep == {i \in 1..Len(s) : ~InClass(Char(s, i), Whitespace)}
    IN  IF keep = {} THEN ""
        ELSE SubSeq(s, CHOOSE i \in keep : \A j \in keep : i <= j,
                       CHOOSE i \in keep : \A j \in keep : i >= j)

UpperChar(ch) ==
    IF \E i \in 1..Len(LowerLetters) : Char(LowerLetters, i) = ch
    THEN LET i == CHOOSE j \in 1..Len(LowerLetters) :
                     Char(LowerLetters, j) = ch
         IN  Char(UpperLetters, i)
    ELSE ch

\* s.upper()
RECURSIVE Upper(_)
Upper(s) ==
    IF Len(s) = 0 THEN ""
    ELSE IF Len(s) = 1 THEN UpperChar(s)
    ELSE LET h == Len(s) \div 2
         IN  Upper(SubSeq(s, 1, h)) \o Upper(SubSeq(s, h + 1, Len(s)))

(***************************************************************************)
(* Regular expressions.  A pattern ^...$ is the sequence of its items: a   *)
(* character class repeated min..max times, or an alternation of literal   *)
(* strings.                                                                *)
(***************************************************************************)
\* the upper bound of + and {n,}
Unbounded == -1

Class(set, min, max) == [kind |-> "class", set |-> set, min |-> min, max |-> max]
Alt(alts) == [kind |-> "alt", alts |-> alts]

\* re.match(pattern, s) for an anchored pattern: items k.. of pattern match
\* s from position i to its end
RECURSIVE MatchFrom(_, _, _, _)
MatchFrom(pattern, k, s, i) ==
    IF k > Len(pattern) THEN i = Len(s) + 1
    ELSE LET item == pattern[k]
         IN  IF item.kind = "alt"
             THEN \E a \in DOMAIN item.alts :
                     LET w == item.alts[a]
                     IN  /\ i + Len(w) - 1 <= Len(s)
                         /\ SubSeq(s, i, i + Len(w) - 1) = w
                         /\ MatchFrom(pattern, k + 1, s, i + Len(w))
             ELSE \E n \in item.min..(IF item.max = Unbounded THEN Len(s)
                                       ELSE item.max) :
                     /\ i + n - 1 <= Len(s)
                     /\ \A j \in i..(i + n - 1) : InClass(Char(s, j), item.set)
                     /\ MatchFrom(pattern, k + 1, s, i + n)

re_match(pattern, s) == MatchFrom(pattern, 1, s, 1)

\* any(re.match(pattern, s) for pattern in patterns)
AnyMatch(patterns, s) == \E p \in DOMAIN patterns : re_match(patterns[p], s)

\* DATE_PATTERNS without the third pattern, M/D/YYYY
DATE_PATTERNS_two_digit_only ==
    << <<Class(DigitChars, 4, 4), Class("-", 1, 1), Class(DigitChars, 2, 2),
         Class("-", 1, 1), Class(DigitChars, 2, 2)>>,
       <<Class(DigitChars, 2, 2), Class("/", 1, 1), Class(DigitChars, 2, 2),
         Class("/", 1, 1), Class(DigitChars, 4, 4)>> >>

\* RequestValidator.DATE_PATTERNS
DATE_PATTERNS ==
    << <<Class(DigitChars, 4, 4), Class("-", 1, 1), Class(DigitChars, 2, 2),
         Class("-", 1, 1), Class(DigitChars, 2, 2)>>,
       <<Class(DigitChars, 2, 2), Class("/", 1, 1), Class(DigitChars, 2, 2),
         Class("/", 1, 1), Class(DigitChars, 4, 4)>>,
       <<Class(DigitChars, 1, 2), Class("/", 1, 1), Class(DigitChars, 1, 2),
         Class("/", 1, 1), Class(DigitChars, 4, 4)>> >>

\* TIME_PATTERNS without the third pattern, the 24-hour one
TIME_PATTERNS_am_pm_only ==
    << <<Class(DigitChars, 1, 2), Class(":", 1, 1), Class(DigitChars, 2, 2),
         Class(Whitespace, 0, 1), Alt(<<"AM", "PM">>)>>,
       <<Class(DigitChars, 1, 2), Alt(<<"AM", "PM">>)>> >>

\* RequestValidator.TIME_PATTERNS
TIME_PATTERNS ==
    << <<Class(DigitChars, 1, 2), Class(":", 1, 1), Class(DigitChars, 2, 2),
         Class(Whitespace, 0, 1), Alt(<<"AM", "PM">>)>>,
       <<Class(DigitChars, 1, 2), Alt(<<"AM", "PM">>)>>,
       <<Class(DigitChars, 1, 2), Class(":", 1, 1), Class(DigitChars, 2, 2)>> >>

\* RequestValidator.PHONE_PATTERN
PHONE_PATTERN ==
    <<Class("+", 0, 1), Class("1", 0, 1), Class("-." \o Whitespace, 0, 1),
      Class("(", 0, 1), Class(DigitChars, 3, 3), Class(")", 0, 1),
      Class("-." \o Whitespace, 0, 1), Class(DigitChars, 3, 3),
      Class("-." \o Whitespace, 0, 1), Class(DigitChars, 4, 4)>>

\* RequestValidator.validate_date(date_str)
validate_date(x) ==
    IF x.t # "str" \/ x = PyStr("")
    THEN Fails(ValidationErrorFor("Date is required and must be a string",
                                  "date", x))
    ELSE LET date_str == Strip(x.v)
         IN  IF ~AnyMatch(DATE_PATTERNS, date_str)
             THEN Fails(ValidationErrorFor(
                     "Invalid date format. Expected formats: YYYY-MM-DD, MM/DD/YYYY, or M/D/YYYY",
                     "date", PyStr(date_str)))
             ELSE Returns(PyStr(date_str))

\* RequestValidator.validate_time(time_str); the patterns have no
\* lower-case letter and time_str is upper-cased, so re.IGNORECASE changes
\* nothing
validate_time(x) ==
    IF x.t # "str" \/ x = PyStr("")
    THEN Fails(ValidationErrorFor("Time is required and must be a string",
                                  "time", x))
    ELSE LET time_str == Upper(Strip(x.v))
         IN  IF ~AnyMatch(TIME_PATTERNS, time_str)
             THEN Fails(ValidationErrorFor(
                     "Invalid time format. Expected formats: 7:00 PM, 7PM, or 19:00",
                     "time", PyStr(time_str)))
             ELSE Returns(PyStr(time_str))

\* the value of the decimal digit ch
DigitVal(ch) == (CHOOSE i \in 1..Len(DigitChars) : Char(DigitChars, i) = ch) - 1

\* the value of a string of decimal digits
RECURSIVE DecimalValue(_)
DecimalValue(s) ==
    IF Len(s) = 0 THEN 0
    ELSE DecimalValue(SubSeq(s, 1, Len(s) - 1)) * 10
            + DigitVal(Char(s, Len(s)))

AllDigits(s) == \A i \in 1..Len(s) : InClass(Char(s, i), DigitChars)

Coerced(n) == [ok |-> TRUE, v |-> n]
CoerceRaises(exc) == [ok |-> FALSE, exc |-> exc]

\* int(x): an int is itself, a float is truncated toward zero, the float
\* infinity raises OverflowError, None raises TypeError, and a string is
\* stripped and read as an optional sign and decimal digits, ValueError
\* otherwise
int(x) ==
    IF x.t = "int" THEN Coerced(x.v)
    ELSE IF x.t = "float"
    THEN Coerced(IF x.tenths >= 0 THEN x.tenths \div 10
                 ELSE -((-x.tenths) \div 10))
    ELSE IF x.t = "float_inf" THEN CoerceRaises("OverflowError")
    ELSE IF x.t = "none" THEN CoerceRaises("TypeError")
    ELSE LET s == Strip(x.v)
             signed == Len(s) >= 1 /\ Char(s, 1) \in {"+", "-"}
             body == IF signed THEN SubSeq(s, 2, Len(s)) ELSE s
         IN  IF Len(body) >= 1 /\ AllDigits(body)
             THEN Coerced(IF signed /\ Char(s, 1) = "-"
                          THEN -DecimalValue(body) ELSE DecimalValue(body))
             ELSE CoerceRaises("ValueError")

\* the exception int(x) raises
CoerceError(exc) ==
    PlainException(exc, IF exc = "OverflowError"
                        THEN "cannot convert float infinity to integer"
                        ELSE "int() argument is not a number")

\* RequestValidator.validate_party_size(party_size): ValidationError is not
\* a ValueError, so the two range errors leave the try block as they are
validate_party_size(x) ==
    LET size == int(x)
    IN  IF size.ok
        THEN IF size.v < 1
             THEN Fails(ValidationErrorFor("Party size must be at least 1",
                                           "party_size", x))
             ELSE IF size.v > 20
             THEN Fails(ValidationErrorFor("Party size cannot exceed 20",
                                           "party_size", x))
             ELSE Returns(PyInt(size.v))
        ELSE IF size.exc \in {"ValueError", "TypeError"}
        THEN Fails(ValidationErrorFor("Party size must be a number",
                                      "party_size", x))
        ELSE Fails(CoerceError(size.exc))

\* RequestValidator.validate_location(location)
validate_location(x) ==
    IF x.t # "str" \/ x = PyStr("")
    THEN Fails(ValidationErrorFor("Location is required and must be a string",
                                  "location", x))
    ELSE LET location == Strip(x.v)
         IN  IF Len(location) < 2
             THEN Fails(ValidationErrorFor(
                     "Location must be at least 2 characters",
                     "location", PyStr(location)))
             ELSE IF Len(location) > 100
             THEN Fails(ValidationErrorFor(
                     "Location cannot exceed 100 characters",
                     "location", PyStr(location)))
             ELSE Returns(PyStr(location))

\* re.sub(r'[^\d]', '', s)
RECURSIVE DigitsOf(_)
DigitsOf(s) ==
    IF Len(s) = 0 THEN ""
    ELSE (IF InClass(Char(s, 1), DigitChars) THEN Char(s, 1) ELSE "")
            \o DigitsOf(SubSeq(s, 2, Len(s)))

\* validate_phone that puts "+1" before the digits whatever their number
validate_phone_prefix_always(x) ==
    IF x.t # "str" \/ x = PyStr("")
    THEN Fails(ValidationErrorFor(
            "Phone number is required and must be a string", "phone", x))
    ELSE LET phone == Strip(x.v)
         IN  IF ~re_match(PHONE_PATTERN, phone)
             THEN Fails(ValidationErrorFor("Invalid phone number format",
                                           "phone", PyStr(phone)))
             ELSE Returns(PyStr("+1" \o DigitsOf(phone)))

\* RequestValidator.validate_phone(phone)
validate_phone(x) ==
    IF x.t # "str" \/ x = PyStr("")
    THEN Fails(ValidationErrorFor(
            "Phone number is required and must be a string", "phone", x))
    ELSE LET phone == Strip(x.v)
         IN  IF ~re_match(PHONE_PATTERN, phone)
             THEN Fails(ValidationErrorFor("Invalid phone number format",
                                           "phone", PyStr(phone)))
             ELSE LET digits == DigitsOf(phone)
                  IN  IF Len(digits) = 10
                      THEN Returns(PyStr("+1" \o digits))
                      ELSE IF Len(digits) = 11 /\ Char(digits, 1) = "1"
                      THEN Returns(PyStr("+" \o digits))
                      ELSE Returns(PyStr(phone))

Letters == LowerLetters \o UpperLetters

\* RequestValidator.EMAIL_PATTERN
EMAIL_PATTERN ==
    <<Class(Letters \o DigitChars \o "._%+-", 1, Unbounded),
      Class("@", 1, 1),
      Class(Letters \o DigitChars \o ".-", 1, Unbounded),
      Class(".", 1, 1),
      Class(Letters, 2, Unbounded)>>

\* RequestValidator.validate_email(email)
validate_email(x) ==
    IF x.t # "str" \/ x = PyStr("")
    THEN Fails(ValidationErrorFor("Email is required and must be a string",
                                  "inbox_id", x))
    ELSE LET email == Lower(Strip(x.v))
         IN  IF ~re_match(EMAIL_PATTERN, email)
             THEN Fails(ValidationErrorFor("Invalid email format",
                                           "inbox_id", PyStr(email)))
             ELSE Returns(PyStr(email))

\* re.search(r'[<>\"\'&]', s)
HasHarmfulChar(s) == \E i \in 1..Len(s) : InClass(Char(s, i), "<>\"'&")

\* RequestValidator.validate_name(name, field_name)
validate_name(x, field_name) ==
    IF x.t # "str" \/ x = PyStr("")
    THEN Fails(ValidationErrorFor(
            field_name \o " is required and must be a string", field_name, x))
    ELSE LET name == Strip(x.v)
         IN  IF Len(name) < 1
             THEN Fails(ValidationErrorFor(field_name \o " cannot be empty",
                                           field_name, PyStr(name)))
             ELSE IF Len(name) > 50
             THEN Fails(ValidationErrorFor(
                     field_name \o " cannot exceed 50 characters",
                     field_name, PyStr(name)))
             ELSE IF HasHarmfulChar(name)
             THEN Fails(ValidationErrorFor(
                     field_name \o " contains invalid characters",
                     field_name, PyStr(name)))
             ELSE Returns(PyStr(name))

(***************************************************************************)
(* One call of a validator on a value, and the validator applied again to  *)
(* what it returned.                                                       *)
(***************************************************************************)
ValidatorNames ==
    {"date", "time", "party_size", "phone", "location", "inbox_id",
     "first_name", "last_name"}

DateInputs ==
    {PyStr(s) : s \in {"2025-08-31", "2025-12-25", "08/31/2025", "12/25/2025",
                     "8/31/2025", "12/5/2025", "  2025-08-31  ",
                     "\t12/25/2025\n", "9999-99-99", "invalid-date",
                     "2025/08/31", "31-08-2025", "", "   ", "2025-8-31",
                     "2025-08-31x", "123/4/2025", "8/31/25"}}
      \cup {PyNone, PyInt(20250831)}

TimeInputs ==
    {PyStr(s) : s \in {"7PM", "7:30 PM", "12:00 AM", "19:00", "07:30", "7pm",
                     "7:30 pm", " 7:30pm ", "invalid-time", "25:00",
                     "7:60 PM", "25:99", "", "7 PM", "7:30  PM", "123:00",
                     "7:5", "7:30 XM"}}
      \cup {PyNone, PyInt(7)}

PartySizeInputs ==
    {PyInt(n) : n \in {-5, 0, 1, 2, 10, 20, 21, 100}}
      \cup {PyStr(s) : s \in {"5", "15", " 7 ", "+7", "-3", "0", "1", "20",
                            "21", "invalid", "", "5.0", "2 0"}}
      \cup {PyFloat(t) : t \in {-5, 5, 59, 209, 210}}
      \cup {PyFloatInf, PyNone}

PhoneInputs ==
    {PyStr(s) : s \in {"+14155551234", "4155551234", "14155551234",
                     "(415) 555-1234", "415-555-1234", "415.555.1234",
                     "+1 (415) 555-1234", "1-415-555-1234", "1234567890",
                     "  4155551234 ", "invalid-phone", "123", "",
                     "415555123", "41555512345", "+24155551234",
                     "415--555-1234"}}
      \cup {PyNone, PyInt(5551234)}

LocationInputs ==
    {PyStr(s) : s \in {"San Francisco", "SF", " NYC ", "A", "", "  "}}
      \cup {PyNone}

EmailInputs ==
    {PyStr(s) : s \in {"test@example.com", "user@agentmail.to",
                       "  TEST@EXAMPLE.COM  ", "invalid-email",
                       "@example.com", "test@", "", "a@b.c"}}
      \cup {PyNone}

NameInputs ==
    {PyStr(s) : s \in {"John", "Smith-Jones", "  Mary  ", "", "   ",
                       "John<script>", "O'Brien",
                       "Wolfeschlegelsteinhausenbergerdorffwelchevoralternwarengewissenhaft"}}
      \cup {PyNone}

ValidatorInputs(fn) ==
    CASE fn = "date" -> DateInputs
      [] fn = "time" -> TimeInputs
      [] fn = "party_size" -> PartySizeInputs
      [] fn = "phone" -> PhoneInputs
      [] fn = "location" -> LocationInputs
      [] fn = "inbox_id" -> EmailInputs
      [] fn \in {"first_name", "last_name"} -> NameInputs

\* RequestValidator.validate_<fn>(x)
Validator(fn, x) ==
    CASE fn = "date" -> validate_date(x)
      [] fn = "time" -> validate_time(x)
      [] fn = "party_size" -> validate_party_size(x)
      [] fn = "phone" -> validate_phone(x)
      [] fn = "location" -> validate_location(x)
      [] fn = "inbox_id" -> validate_email(x)
      [] fn \in {"first_name", "last_name"} -> validate_name(x, fn)

\* v_out = RequestValidator.validate_<v_fn>(v_in)
Validate ==
    /\ v_pc = "start"
    /\ v_out' = Validator(v_fn, v_in)
    /\ v_pc' = "validated"
    /\ UNCHANGED <<v_fn, v_in, v_again>>
    /\ UNCHANGED notVA

\* v_again = RequestValidator.validate_<v_fn>(v_out), v_out being a
\* returned value
Revalidate ==
    /\ v_pc = "validated"
    /\ v_out.kind = "ok"
    /\ v_again' = Validator(v_fn, v_out.value)
    /\ v_pc' = "done"
    /\ UNCHANGED <<v_fn, v_in, v_out>>
    /\ UNCHANGED notVA

NextVA == Validate \/ Revalidate

(***************************************************************************)
(* restaurant_kernel_agent.py: the make-reservation action.  A payload is  *)
(* a record of the eight request fields, Missing standing for an absent    *)
(* key.                                                                    *)
(***************************************************************************)
Missing == [t |-> "missing"]

MAX_RETRIES == 3

\* the decimal digits of n >= 0
RECURSIVE DecimalString(_)
DecimalString(n) ==
    IF n < 10 THEN Char(DigitChars, n + 1)
    ELSE DecimalString(n \div 10) \o Char(DigitChars, (n % 10) + 1)

\* str(x)
str(x) ==
    IF x.t = "str" THEN x.v
    ELSE IF x.t = "int"
    THEN (IF x.v < 0 THEN "-" \o DecimalString(-x.v) ELSE DecimalString(x.v))
    ELSE "None"

\* validate_environment(), the two API keys being set or not
validate_environment(env_set) ==
    IF env_set THEN Returns(None)
    ELSE Fails(PlainException("ValueError",
            "Missing required environment variables: OPENAI_API_KEY (OpenAI API key for LLM), AGENTMAIL_API_KEY (AgentMail API key for email verification)"))

required_fields == <<"date", "time", "party_size", "location">>

\* payload.get(key, default)
Get(payload, key, default) ==
    IF payload[key] = Missing THEN PyStr(default) ELSE payload[key]

\* the first of the outcomes that is a failure, the last outcome if none is
RECURSIVE FirstFailure(_)
FirstFailure(outcomes) ==
    IF Len(outcomes) = 1 \/ outcomes[1].kind = "error" THEN outcomes[1]
    ELSE FirstFailure(Tail(outcomes))

\* validate_reservation_request(payload); importable says whether
\* "from production_utils import RequestValidator" succeeds
validate_reservation_request(importable, payload) ==
    LET absent == {k \in DOMAIN required_fields :
                      payload[required_fields[k]] = Missing}
    IN  IF absent # {}
        THEN Fails(PlainException("ValueError",
                "Missing required field: "
                   \o required_fields[CHOOSE k \in absent :
                                         \A j \in absent : k <= j]))
        ELSE
        LET sanitized == [f \in {"date", "time", "party_size", "location"} |->
                             Strip(str(payload[f]))]
            checked ==
                IF importable
                THEN FirstFailure(<<validate_date(PyStr(sanitized.date)),
                                    validate_time(PyStr(sanitized.time)),
                                    validate_location(PyStr(sanitized.location))>>)
                ELSE IF ~AnyMatch(DATE_PATTERNS, sanitized.date)
                THEN Fails(PlainException("ValueError",
                        "Invalid date format. Expected formats: YYYY-MM-DD, MM/DD/YYYY, or M/D/YYYY"))
                ELSE Returns(None)
            party_size == int(PyStr(sanitized.party_size))
        IN  IF checked.kind = "error" THEN checked
            ELSE IF ~party_size.ok \/ party_size.v < 1 \/ party_size.v > 20
            THEN Fails(PlainException("ValueError",
                    "Invalid party size - must be a number between 1 and 20"))
            ELSE Returns(
               [date |-> IF importable
                         THEN validate_date(PyStr(sanitized.date)).value
                         ELSE PyStr(sanitized.date),
                time |-> IF importable
                         THEN validate_time(PyStr(sanitized.time)).value
                         ELSE PyStr(sanitized.time),
                location |-> IF importable
                             THEN validate_location(PyStr(sanitized.location)).value
                             ELSE PyStr(sanitized.location),
                party_size |-> PyInt(party_size.v),
                inbox_id |-> Get(payload, "inbox_id", "opentable_2@agentmail.to"),
                phone |-> Get(payload, "phone", "+18777804236"),
                first_name |-> Get(payload, "first_name", "WAGENT"),
                last_name |-> Get(payload, "last_name", "SRY")])

\* the error response of make_restaurant_reservation for the exception e:
\* except ValueError / except RuntimeError / except Exception
ErrorResponse(e) ==
    IF e.cls = "ValueError"
    THEN [success |-> FALSE, error |-> "validation_error", message |-> e.message]
    ELSE IF e.cls = "RuntimeError"
    THEN [success |-> FALSE, error |-> "runtime_error", message |-> e.message]
    ELSE [success |-> FALSE, error |-> "unexpected_error",
          message |-> "An unexpected error occurred. Please check logs for details."]

\* the task_result make_restaurant_reservation returns
SuccessResponse == [success |-> TRUE, error |-> None, message |-> ""]

\* make_restaurant_reservation, up to the creation of the browser session:
\* validate_environment() and validate_reservation_request(payload)
ValidateRequest ==
    /\ m_pc = "start"
    /\ LET env == validate_environment(m_env)
           request == validate_reservation_request(m_utils, m_payload)
           failure == IF env.kind = "error" THEN env ELSE request
       IN  IF failure.kind = "error"
           THEN /\ m_error' = failure.err
                /\ m_response' = ErrorResponse(failure.err)
                /\ m_pc' = "done"
                /\ UNCHANGED m_params
           ELSE /\ m_params' = request.value
                /\ m_pc' = "create"
                /\ UNCHANGED <<m_error, m_response>>
    /\ UNCHANGED <<m_env, m_utils, m_payload, m_attempts, m_created, m_deleted>>
    /\ UNCHANGED notMK

\* create_kernel_browser_session: one turn of "for attempt in
\* range(MAX_RETRIES)".  client.browsers.create fails, or it creates a
\* browser and the connection over CDP then fails or succeeds; the last
\* failed attempt raises RuntimeError
CreateAttempt ==
    /\ m_pc = "create"
    /\ m_attempts < MAX_RETRIES
    /\ m_attempts' = m_attempts + 1
    /\ \E result \in {"create_fails", "connect_fails", "connected"} :
          /\ m_created' = IF result = "create_fails" THEN m_created
                          ELSE m_created + 1
          /\ IF result = "connected"
             THEN /\ m_pc' = "execute"
                  /\ UNCHANGED <<m_error, m_response>>
             ELSE IF m_attempts + 1 < MAX_RETRIES
             THEN UNCHANGED <<m_pc, m_error, m_response>>
             ELSE LET e == PlainException("RuntimeError",
                              "Failed to create browser after 3 attempts")
                  IN  /\ m_error' = e
                      /\ m_response' = ErrorResponse(e)
                      /\ m_pc' = "done"
    /\ UNCHANGED <<m_env, m_utils, m_payload, m_params, m_deleted>>
    /\ UNCHANGED notMK

\* execute_reservation_task returns or raises, then the finally block:
\* playwright_browser.close() and client.browsers.delete_by_id(session_id),
\* the deletion being skipped when close() raises
ExecuteTask ==
    /\ m_pc = "execute"
    /\ \E returns \in BOOLEAN, closes \in BOOLEAN :
          /\ m_deleted' = IF closes THEN m_deleted + 1 ELSE m_deleted
          /\ IF returns
             THEN /\ m_response' = SuccessResponse
                  /\ UNCHANGED m_error
             ELSE LET e == PlainException("Exception", "agent run failed")
                  IN  /\ m_error' = e
                      /\ m_response' = ErrorResponse(e)
    /\ m_pc' = "done"
    /\ UNCHANGED <<m_env, m_utils, m_payload, m_params, m_attempts, m_created>>
    /\ UNCHANGED notMK

NextMK == ValidateRequest \/ CreateAttempt \/ ExecuteTask

\* no exception, no response yet
NoError == PlainException("", "")
NoResponse == [success |-> FALSE, error |-> None, message |-> ""]

\* the payload {}
EmptyPayload ==
    [f \in {"date", "time", "party_size", "location", "inbox_id", "phone",
            "first_name", "last_name"} |-> Missing]

\* the payloads of the model
Payloads ==
    [date : {PyStr("2025-08-31"), PyStr("invalid-date"), Missing},
     time : {PyStr("7PM"), PyStr("invalid-time")},
     party_size : {PyInt(2), PyInt(0), PyInt(21), PyStr("2"), PyStr("two")},
     location : {PyStr("San Francisco"), PyStr("SF"), PyStr("A")},
     inbox_id : {Missing, PyStr("test@agentmail.to"), PyStr("invalid-email")},
     phone : {Missing, PyStr("123")},
     first_name : {Missing, PyStr("John<script>")},
     last_name : {Missing}]

(***************************************************************************)
(* ApplicationMonitor.record_operation: the counters of the monitor and     *)
(* the alerts handed to the alert handlers.  The metrics collector and      *)
(* response_times are written by record_operation and never read by it;     *)
(* they are left out.                                                       *)
(***************************************************************************)
MaxRecorded == 11

Operations == {"failing_operation", "slow_operation"}

\* duration_seconds: None, or a number of seconds
NoDuration == -1
Durations == {NoDuration, 1, 150}

\* the keys of operation_counts
CountKey(operation, success) ==
    operation \o ":" \o (IF success THEN "success" ELSE "error")

CountKeys == {CountKey(o, b) : o \in Operations, b \in BOOLEAN}

\* AlertManager.alert(level, title, message, context): the Alert that
\* send_alert hands to every handler
Alert(level, title, operation) ==
    [level |-> level, title |-> title, context |-> [operation |-> operation]]

SlowOperationAlert(operation) ==
    Alert("warning", "Slow Operation: " \o operation, operation)

HighErrorRateAlert(operation) ==
    Alert("error", "High Error Rate: " \o operation, operation)

\* total_ops of record_operation, for the counters counts
total_ops(counts, operation) ==
    counts[CountKey(operation, TRUE)] + counts[CountKey(operation, FALSE)]

\* error_rate > 0.1, error_rate being errors / total
HighErrorRate(errors, total) == 10 * errors > total

\* ApplicationMonitor.record_operation(operation, success, duration_seconds)
record_operation(operation, success, duration_seconds) ==
    LET counts == [operation_counts EXCEPT
                      ![CountKey(operation, success)] = @ + 1]
        errors == IF success THEN error_counts
                  ELSE [error_counts EXCEPT ![operation] = @ + 1]
        slow == IF duration_seconds # NoDuration /\ duration_seconds > 120
                THEN {SlowOperationAlert(operation)} ELSE {}
        high == IF /\ ~success
                   /\ total_ops(counts, operation) >= 10
                   /\ HighErrorRate(errors[operation],
                                    total_ops(counts, operation))
                THEN {HighErrorRateAlert(operation)} ELSE {}
    IN  /\ operation_counts' = counts
        /\ error_counts' = errors
        /\ alert_calls' = alert_calls \cup slow \cup high

RecordOperation ==
    /\ recorded < MaxRecorded
    /\ \E operation \in Operations, success \in BOOLEAN,
          duration_seconds \in Durations :
          record_operation(operation, success, duration_seconds)
    /\ recorded' = recorded + 1
    /\ UNCHANGED notMO

NextMO == RecordOperation

\* a fresh breaker, CircuitBreaker(th, rt), and its callers
InitCB ==
    /\ \E th \in 1..MaxThreshold, rt \in 1..MaxRecovery :
          cb = CircuitBreaker(th, rt)
    /\ now = 0
    /\ pc = [c \in Callers |-> "idle"]
    /\ outcome = [c \in Callers |-> NoOutcome]
    /\ invoked = 0
    /\ consec = 0
    /\ probe = [c \in Callers |-> FALSE]
    /\ last = [op |-> "init", c |-> 0, from |-> "CLOSED", count0 |-> 0]
    \* no classification is running
    /\ c_err = PlainException("Exception", "")
    /\ c_cat = None
    /\ c_retry = FALSE
    /\ c_pc = "off"
    \* no retried call is running
    /\ r_build = "state_repr"
    /\ r_max = 1
    /\ r_min = 1
    /\ r_maxw = 3
    /\ r_base = 2
    /\ r_jitter = TRUE
    /\ r_script = [i \in 1..MaxAttempts |-> Ok]
    /\ r_pc = "off"
    /\ r_attempt = 1
    /\ r_calls = 0
    /\ r_outcome = NoOutcome
    /\ r_waits = <<>>
    /\ r_result = NoOutcome
    \* no safe_async_operation call is running
    /\ s_name = "successful_op"
    /\ s_op = Returns(None)
    /\ s_pc = "off"
    /\ s_result = NoOutcome
    \* no layered call is running
    /\ ch_pc = "off"
    /\ ch_result = NoOutcome
    /\ ch_call = 1
    \* no validator is running
    /\ v_fn = "date"
    /\ v_in = PyNone
    /\ v_pc = "off"
    /\ v_out = NoOutcome
    /\ v_again = NoOutcome
    \* no reservation request is running
    /\ m_env = TRUE
    /\ m_utils = TRUE
    /\ m_payload = EmptyPayload
    /\ m_pc = "off"
    /\ m_params = PyNone
    /\ m_error = NoError
    /\ m_attempts = 0
    /\ m_created = 0
    /\ m_deleted = 0
    /\ m_response = NoResponse
    \* no monitor is in use
    /\ operation_counts = [k \in CountKeys |-> 0]
    /\ error_counts = [o \in Operations |-> 0]
    /\ alert_calls = {}
    /\ recorded = 0

\* an exception to classify
InitCL ==
    /\ c_err \in Errors
    /\ c_cat = None
    /\ c_retry = FALSE
    /\ c_pc = "start"
    \* the breaker is not in use
    /\ cb = CircuitBreaker(1, 1)
    /\ now = 0
    /\ pc = [c \in Callers |-> "idle"]
    /\ outcome = [c \in Callers |-> NoOutcome]
    /\ invoked = 0
    /\ consec = 0
    /\ probe = [c \in Callers |-> FALSE]
    /\ last = [op |-> "init", c |-> 0, from |-> "CLOSED", count0 |-> 0]
    \* no retried call is running
    /\ r_build = "state_repr"
    /\ r_max = 1
    /\ r_min = 1
    /\ r_maxw = 3
    /\ r_base = 2
    /\ r_jitter = TRUE
    /\ r_script = [i \in 1..MaxAttempts |-> Ok]
    /\ r_pc = "off"
    /\ r_attempt = 1
    /\ r_calls = 0
    /\ r_outcome = NoOutcome
    /\ r_waits = <<>>
    /\ r_result = NoOutcome
    \* no safe_async_operation call is running
    /\ s_name = "successful_op"
    /\ s_op = Returns(None)
    /\ s_pc = "off"
    /\ s_result = NoOutcome
    \* no layered call is running
    /\ ch_pc = "off"
    /\ ch_result = NoOutcome
    /\ ch_call = 1
    \* no validator is running
    /\ v_fn = "date"
    /\ v_in = PyNone
    /\ v_pc = "off"
    /\ v_out = NoOutcome
    /\ v_again = NoOutcome
    \* no reservation request is running
    /\ m_env = TRUE
    /\ m_utils = TRUE
    /\ m_payload = EmptyPayload
    /\ m_pc = "off"
    /\ m_params = PyNone
    /\ m_error = NoError
    /\ m_attempts = 0
    /\ m_created = 0
    /\ m_deleted = 0
    /\ m_response = NoResponse
    \* no monitor is in use
    /\ operation_counts = [k \in CountKeys |-> 0]
    /\ error_counts = [o \in Operations |-> 0]
    /\ alert_calls = {}
    /\ recorded = 0

\* a function decorated with production_retry(r_max, r_min, r_maxw, r_base,
\* r_jitter)
InitRT ==
    /\ r_build \in Builds
    /\ r_max \in 1..MaxAttempts
    /\ r_min \in MinWaits
    /\ r_maxw \in MaxWaits
    /\ r_base \in Bases
    /\ r_jitter \in BOOLEAN
    /\ r_script \in Scripts
    /\ r_pc = "decorate"
    /\ r_attempt = 1
    /\ r_calls = 0
    /\ r_outcome = NoOutcome
    /\ r_waits = <<>>
    /\ r_result = NoOutcome
    \* the breaker is not in use
    /\ cb = CircuitBreaker(1, 1)
    /\ now = 0
    /\ pc = [c \in Callers |-> "idle"]
    /\ outcome = [c \in Callers |-> NoOutcome]
    /\ invoked = 0
    /\ consec = 0
    /\ probe = [c \in Callers |-> FALSE]
    /\ last = [op |-> "init", c |-> 0, from |-> "CLOSED", count0 |-> 0]
    \* no classification is running
    /\ c_err = PlainException("Exception", "")
    /\ c_cat = None
    /\ c_retry = FALSE
    /\ c_pc = "off"
    \* no safe_async_operation call is running
    /\ s_name = "successful_op"
    /\ s_op = Returns(None)
    /\ s_pc = "off"
    /\ s_result = NoOutcome
    \* no layered call is running
    /\ ch_pc = "off"
    /\ ch_result = NoOutcome
    /\ ch_call = 1
    \* no validator is running
    /\ v_fn = "date"
    /\ v_in = PyNone
    /\ v_pc = "off"
    /\ v_out = NoOutcome
    /\ v_again = NoOutcome
    \* no reservation request is running
    /\ m_env = TRUE
    /\ m_utils = TRUE
    /\ m_payload = EmptyPayload
    /\ m_pc = "off"
    /\ m_params = PyNone
    /\ m_error = NoError
    /\ m_attempts = 0
    /\ m_created = 0
    /\ m_deleted = 0
    /\ m_response = NoResponse
    \* no monitor is in use
    /\ operation_counts = [k \in CountKeys |-> 0]
    /\ error_counts = [o \in Operations |-> 0]
    /\ alert_calls = {}
    /\ recorded = 0

\* an operation handed to safe_async_operation
InitSA ==
    /\ s_name \in OperationNames
    /\ s_op \in SafeOutcomes
    /\ s_pc = "start"
    /\ s_result = NoOutcome
    \* the breaker is not in use
    /\ cb = CircuitBreaker(1, 1)
    /\ now = 0
    /\ pc = [c \in Callers |-> "idle"]
    /\ outcome = [c \in Callers |-> NoOutcome]
    /\ invoked = 0
    /\ consec = 0
    /\ probe = [c \in Callers |-> FALSE]
    /\ last = [op |-> "init", c |-> 0, from |-> "CLOSED", count0 |-> 0]
    \* no classification is running
    /\ c_err = PlainException("Exception", "")
    /\ c_cat = None
    /\ c_retry = FALSE
    /\ c_pc = "off"
    \* no retried call is running
    /\ r_build = "state_repr"
    /\ r_max = 1
    /\ r_min = 1
    /\ r_maxw = 3
    /\ r_base = 2
    /\ r_jitter = TRUE
    /\ r_script = [i \in 1..MaxAttempts |-> Ok]
    /\ r_pc = "off"
    /\ r_attempt = 1
    /\ r_calls = 0
    /\ r_outcome = NoOutcome
    /\ r_waits = <<>>
    /\ r_result = NoOutcome
    \* no layered call is running
    /\ ch_pc = "off"
    /\ ch_result = NoOutcome
    /\ ch_call = 1
    \* no validator is running
    /\ v_fn = "date"
    /\ v_in = PyNone
    /\ v_pc = "off"
    /\ v_out = NoOutcome
    /\ v_again = NoOutcome
    \* no reservation request is running
    /\ m_env = TRUE
    /\ m_utils = TRUE
    /\ m_payload = EmptyPayload
    /\ m_pc = "off"
    /\ m_params = PyNone
    /\ m_error = NoError
    /\ m_attempts = 0
    /\ m_created = 0
    /\ m_deleted = 0
    /\ m_response = NoResponse
    \* no monitor is in use
    /\ operation_counts = [k \in CountKeys |-> 0]
    /\ error_counts = [o \in Operations |-> 0]
    /\ alert_calls = {}
    /\ recorded = 0

\* the layered operation on a fresh breaker, before the decorators are
\* applied
InitChain ==
    /\ \E th \in (1..MaxThreshold) \cup {InteractionThreshold} :
          cb = CircuitBreaker(th, 1)
    /\ now = 0
    /\ pc = [c \in Callers |-> "idle"]
    /\ outcome = [c \in Callers |-> NoOutcome]
    /\ invoked = 0
    /\ consec = 0
    /\ probe = [c \in Callers |-> FALSE]
    /\ last = [op |-> "init", c |-> 0, from |-> "CLOSED", count0 |-> 0]
    /\ r_build \in Builds
    /\ r_max \in 1..MaxAttempts
    /\ r_min = 1
    /\ r_maxw = 60
    /\ r_base = 2
    /\ r_jitter = TRUE
    /\ r_script \in ChainScripts
    /\ r_pc = "decorate"
    /\ r_attempt = 1
    /\ r_calls = 0
    /\ r_outcome = NoOutcome
    /\ r_waits = <<>>
    /\ r_result = NoOutcome
    /\ ch_pc = "call"
    /\ ch_result = NoOutcome
    /\ ch_call = 1
    \* no classification is running
    /\ c_err = PlainException("Exception", "")
    /\ c_cat = None
    /\ c_retry = FALSE
    /\ c_pc = "off"
    \* no safe_async_operation call is running
    /\ s_name = "successful_op"
    /\ s_op = Returns(None)
    /\ s_pc = "off"
    /\ s_result = NoOutcome
    \* no validator is running
    /\ v_fn = "date"
    /\ v_in = PyNone
    /\ v_pc = "off"
    /\ v_out = NoOutcome
    /\ v_again = NoOutcome
    \* no reservation request is running
    /\ m_env = TRUE
    /\ m_utils = TRUE
    /\ m_payload = EmptyPayload
    /\ m_pc = "off"
    /\ m_params = PyNone
    /\ m_error = NoError
    /\ m_attempts = 0
    /\ m_created = 0
    /\ m_deleted = 0
    /\ m_response = NoResponse
    \* no monitor is in use
    /\ operation_counts = [k \in CountKeys |-> 0]
    /\ error_counts = [o \in Operations |-> 0]
    /\ alert_calls = {}
    /\ recorded = 0

\* a value handed to a validator
InitVA ==
    /\ v_fn \in ValidatorNames
    /\ v_in \in ValidatorInputs(v_fn)
    /\ v_pc = "start"
    /\ v_out = NoOutcome
    /\ v_again = NoOutcome
    \* the breaker is not in use
    /\ cb = CircuitBreaker(1, 1)
    /\ now = 0
    /\ pc = [c \in Callers |-> "idle"]
    /\ outcome = [c \in Callers |-> NoOutcome]
    /\ invoked = 0
    /\ consec = 0
    /\ probe = [c \in Callers |-> FALSE]
    /\ last = [op |-> "init", c |-> 0, from |-> "CLOSED", count0 |-> 0]
    \* no classification is running
    /\ c_err = PlainException("Exception", "")
    /\ c_cat = None
    /\ c_retry = FALSE
    /\ c_pc = "off"
    \* no retried call is running
    /\ r_build = "state_repr"
    /\ r_max = 1
    /\ r_min = 1
    /\ r_maxw = 3
    /\ r_base = 2
    /\ r_jitter = TRUE
    /\ r_script = [i \in 1..MaxAttempts |-> Ok]
    /\ r_pc = "off"
    /\ r_attempt = 1
    /\ r_calls = 0
    /\ r_outcome = NoOutcome
    /\ r_waits = <<>>
    /\ r_result = NoOutcome
    \* no safe_async_operation call is running
    /\ s_name = "successful_op"
    /\ s_op = Returns(None)
    /\ s_pc = "off"
    /\ s_result = NoOutcome
    \* no layered call is running
    /\ ch_pc = "off"
    /\ ch_result = NoOutcome
    /\ ch_call = 1
    \* no reservation request is running
    /\ m_env = TRUE
    /\ m_utils = TRUE
    /\ m_payload = EmptyPayload
    /\ m_pc = "off"
    /\ m_params = PyNone
    /\ m_error = NoError
    /\ m_attempts = 0
    /\ m_created = 0
    /\ m_deleted = 0
    /\ m_response = NoResponse
    \* no monitor is in use
    /\ operation_counts = [k \in CountKeys |-> 0]
    /\ error_counts = [o \in Operations |-> 0]
    /\ alert_calls = {}
    /\ recorded = 0

\* a make-reservation request arrives
InitMK ==
    /\ m_env \in BOOLEAN
    /\ m_utils \in BOOLEAN
    /\ m_payload \in Payloads
    /\ m_pc = "start"
    /\ m_params = PyNone
    /\ m_error = NoError
    /\ m_attempts = 0
    /\ m_created = 0
    /\ m_deleted = 0
    /\ m_response = NoResponse
    \* the breaker is not in use
    /\ cb = CircuitBreaker(1, 1)
    /\ now = 0
    /\ pc = [c \in Callers |-> "idle"]
    /\ outcome = [c \in Callers |-> NoOutcome]
    /\ invoked = 0
    /\ consec = 0
    /\ probe = [c \in Callers |-> FALSE]
    /\ last = [op |-> "init", c |-> 0, from |-> "CLOSED", count0 |-> 0]
    \* no classification is running
    /\ c_err = PlainException("Exception", "")
    /\ c_cat = None
    /\ c_retry = FALSE
    /\ c_pc = "off"
    \* no retried call is running
    /\ r_build = "state_repr"
    /\ r_max = 1
    /\ r_min = 1
    /\ r_maxw = 3
    /\ r_base = 2
    /\ r_jitter = TRUE
    /\ r_script = [i \in 1..MaxAttempts |-> Ok]
    /\ r_pc = "off"
    /\ r_attempt = 1
    /\ r_calls = 0
    /\ r_outcome = NoOutcome
    /\ r_waits = <<>>
    /\ r_result = NoOutcome
    \* no safe_async_operation call is running
    /\ s_name = "successful_op"
    /\ s_op = Returns(None)
    /\ s_pc = "off"
    /\ s_result = NoOutcome
    \* no layered call is running
    /\ ch_pc = "off"
    /\ ch_result = NoOutcome
    /\ ch_call = 1
    \* no validator is running
    /\ v_fn = "date"
    /\ v_in = PyNone
    /\ v_pc = "off"
    /\ v_out = NoOutcome
    /\ v_again = NoOutcome
    \* no monitor is in use
    /\ operation_counts = [k \in CountKeys |-> 0]
    /\ error_counts = [o \in Operations |-> 0]
    /\ alert_calls = {}
    /\ recorded = 0

\* a fresh ApplicationMonitor with one alert handler
InitMO ==
    /\ operation_counts = [k \in CountKeys |-> 0]
    /\ error_counts = [o \in Operations |-> 0]
    /\ alert_calls = {}
    /\ recorded = 0
    \* the breaker is not in use
    /\ cb = CircuitBreaker(1, 1)
    /\ now = 0
    /\ pc = [c \in Callers |-> "idle"]
    /\ outcome = [c \in Callers |-> NoOutcome]
    /\ invoked = 0
    /\ consec = 0
    /\ probe = [c \in Callers |-> FALSE]
    /\ last = [op |-> "init", c |-> 0, from |-> "CLOSED", count0 |-> 0]
    \* no classification is running
    /\ c_err = PlainException("Exception", "")
    /\ c_cat = None
    /\ c_retry = FALSE
    /\ c_pc = "off"
    \* no retried call is running
    /\ r_build = "state_repr"
    /\ r_max = 1
    /\ r_min = 1
    /\ r_maxw = 3
    /\ r_base = 2
    /\ r_jitter = TRUE
    /\ r_script = [i \in 1..MaxAttempts |-> Ok]
    /\ r_pc = "off"
    /\ r_attempt = 1
    /\ r_calls = 0
    /\ r_outcome = NoOutcome
    /\ r_waits = <<>>
    /\ r_result = NoOutcome
    \* no safe_async_operation call is running
    /\ s_name = "successful_op"
    /\ s_op = Returns(None)
    /\ s_pc = "off"
    /\ s_result = NoOutcome
    \* no layered call is running
    /\ ch_pc = "off"
    /\ ch_result = NoOutcome
    /\ ch_call = 1
    \* no validator is running
    /\ v_fn = "date"
    /\ v_in = PyNone
    /\ v_pc = "off"
    /\ v_out = NoOutcome
    /\ v_again = NoOutcome
    \* no reservation request is running
    /\ m_env = TRUE
    /\ m_utils = TRUE
    /\ m_payload = EmptyPayload
    /\ m_pc = "off"
    /\ m_params = PyNone
    /\ m_error = NoError
    /\ m_attempts = 0
    /\ m_created = 0
    /\ m_deleted = 0
    /\ m_response = NoResponse

Spec == InitCB /\ [][NextCB]_vars

SpecClassify == InitCL /\ [][NextCL]_vars

SpecRetry == InitRT /\ [][NextRT]_vars

SpecSafe == InitSA /\ [][NextSA]_vars

SpecChain == InitChain /\ [][NextChain]_vars

SpecValidate == InitVA /\ [][NextVA]_vars

SpecReserve == InitMK /\ [][NextMK]_vars

SpecMonitor == InitMO /\ [][NextMO]_vars

\* the category of a failure: its own for an AgentError, the classifier's
\* for any other exception
CategoryOf(e) ==
    IF IsAgentError(e) THEN e.category ELSE categorize_exception(e)

RetryableFailure(o) ==
    o # Ok /\ CategoryOf(o.err) \in RetryableCategories

\* the call is over and the decorator was built (the operation ran)
WrappedDone == r_pc = "done" /\ r_calls >= 1

\* C6 as stated: for every k < max_attempts, an operation that fails with
\* a retryable error on its first k attempts and succeeds on attempt k+1
\* returns its result to the caller and is invoked exactly k+1 times.
C6_RetryUntilSuccess ==
    \A k \in 0..(MaxAttempts - 1) :
        ( /\ WrappedDone
          /\ k < r_max
          /\ \A i \in 1..k : RetryableFailure(r_script[i])
          /\ r_script[k + 1] = Ok )
        => (r_result = Returned /\ r_calls = k + 1)

\* C7 as stated: after an attempt that fails with a category that is not
\* retryable no further attempt is made and that failure is the caller's;
\* an operation that always raises a validation error is invoked exactly
\* once.
C7_NonRetryableStops ==
    /\ \A i \in 1..r_calls :
          (r_script[i] # Ok /\ ~RetryableFailure(r_script[i]))
             => /\ r_calls = i
                /\ r_pc = "done" => r_result = Raised(r_script[i].err)
    /\ ( /\ WrappedDone
         /\ \A i \in 1..MaxAttempts :
               r_script[i] = Fails(ValidationError("invalid input")) )
          => r_calls = 1

\* C8 as stated: when every attempt fails with a retryable error the
\* operation is invoked max_attempts times and the caller receives the
\* last failure itself.
C8_ExhaustedRaisesLast ==
    ( /\ WrappedDone
      /\ \A i \in 1..r_max : RetryableFailure(r_script[i]) )
    => (r_calls = r_max /\ r_result = Raised(r_script[r_max].err))

\* C9 as stated: should_retry_error is true exactly when the category that
\* categorize_exception returns for the same error is a retryable one.
C9_RetryIffClassifiedRetryable ==
    c_pc = "done" => (c_retry <=> c_cat \in RetryableCategories)

\* C10 as stated: for an AgentError (or a subclass) categorize_exception
\* returns the error's own category.
C10_ClassifierKeepsCategory ==
    (c_pc \in {"categorized", "done"} /\ IsAgentError(c_err))
        => c_cat = c_err.category

(***************************************************************************)
(* Steps of the breaker, as the properties below name them.  Every action  *)
(* writes the record last, so a step that changes the state is identified  *)
(* by last'.                                                               *)
(***************************************************************************)
CallStep(c) == pc[c] = "idle" /\ last'.c = c /\ last'.op \in {"enter", "reject"}
SuccessStep(c) == pc[c] = "inflight" /\ last'.c = c /\ last'.op = "success"
FailureStep(c) == pc[c] = "inflight" /\ last'.c = c /\ last'.op = "failure"

\* the breaker is Open and the recovery timeout has not elapsed
OpenAndCooling ==
    /\ cb.state = "OPEN"
    /\ cb.last_failure_time # NoTime
    /\ now - cb.last_failure_time < cb.recovery_timeout

\* the breaker is Open and the recovery timeout has elapsed
OpenAndRecovered ==
    /\ cb.state = "OPEN"
    /\ cb.last_failure_time # NoTime
    /\ now - cb.last_failure_time >= cb.recovery_timeout

\* C1: a failure that completes failure_threshold consecutive failures
\* leaves the breaker Open, and a call made while the breaker is Open and
\* the recovery timeout has not elapsed is rejected with a
\* non_retryable_permanent AgentError without invoking the operation.
C1_OpensAndRejects ==
    [][\A c \in Callers :
         /\ (FailureStep(c) /\ consec' >= cb.failure_threshold)
               => cb'.state = "OPEN"
         /\ (CallStep(c) /\ OpenAndCooling)
               => /\ outcome'[c].kind = "raised"
                  /\ outcome'[c].err.cls = "AgentError"
                  /\ outcome'[c].err.category = "non_retryable_permanent"
                  /\ pc'[c] = "idle"
                  /\ invoked' = invoked]_vars

\* C1 witness: a call was rejected by a breaker that opened after at least
\* two consecutive failures.
C1_Witness ==
    /\ last.op = "reject"
    /\ cb.state = "OPEN"
    /\ cb.failure_threshold >= 2
    /\ consec >= cb.failure_threshold
    /\ outcome[last.c] = Raised(BreakerOpenError)

\* C2 as stated: once the recovery timeout has elapsed the next call moves
\* the Open breaker to HalfOpen and invokes the operation, and if that call
\* (the probe) succeeds the breaker is Closed with failure_count 0.
C2_ProbeSuccessCloses ==
    [][\A c \in Callers :
         /\ (CallStep(c) /\ OpenAndRecovered)
               => /\ cb'.state = "HALF_OPEN"
                  /\ pc'[c] = "inflight"
                  /\ invoked' = invoked + 1
         /\ (SuccessStep(c) /\ probe[c])
               => /\ cb'.state = "CLOSED"
                  /\ cb'.failure_count = 0]_vars

\* C3 as stated: a failure of the operation while the breaker is HalfOpen
\* moves it to Open and records the failure time, whatever failure_count
\* and failure_threshold are.
C3_HalfOpenFailureReopens ==
    [][\A c \in Callers :
         (FailureStep(c) /\ cb.state = "HALF_OPEN")
            => /\ cb'.state = "OPEN"
               /\ cb'.last_failure_time = now]_vars

C5_NoLostUpdate ==
    [][/\ cb'.failure_count = consec'
       /\ cb'.failure_count > 0 => cb'.last_failure_time # NoTime
       /\ cb'.state = "OPEN" => cb'.last_failure_time # NoTime
       /\ \A c \in Callers :
            FailureStep(c)
               => /\ cb'.failure_count = cb.failure_count + 1
                  /\ cb'.last_failure_time = now
                  /\ cb'.failure_count >= cb.failure_threshold
                        => cb'.state = "OPEN"]_vars

\* C5 witness: two calls that were in flight together both failed (with
\* threshold 1 and no time elapsed the second could not have entered after
\* the first failed).
C5_Witness ==
    /\ last.op = "failure"
    /\ cb.failure_threshold = 1
    /\ now = 0
    /\ invoked = 2
    /\ cb.failure_count = 2


RetriedThenOk(k) ==
    /\ \A i \in 1..k : RetryableFailure(r_script[i])
    /\ r_script[k + 1] = Ok

\* C13 as stated: in the chain breaker -> retry -> safe_async_operation ->
\* raw operation, an operation whose first k < max_attempts invocations
\* fail with a retryable category (whatever the message) and whose next
\* invocation succeeds returns the success after exactly k+1 invocations
\* and leaves the breaker CLOSED.
C13_ChainRetriesByCategory ==
    \A k \in 0..(MaxAttempts - 1) :
        (ch_pc = "done" /\ ch_call = 1 /\ k < r_max /\ RetriedThenOk(k)) =>
            /\ ch_result = Returned
            /\ r_calls = k + 1
            /\ cb.state = "CLOSED"

\* the validator v_fn has been applied to v_in
Validated(fn) == v_fn = fn /\ v_pc \in {"validated", "done"}

\* the validator raised a ValidationError whose message contains text
RejectedWith(text) ==
    /\ v_out.kind = "error"
    /\ v_out.err.cls = "ValidationError"
    /\ Contains(v_out.err.message, text)

\* x is a number, or a string that reads as one, and is at least n
NumberAtLeast(x, n) ==
    \/ x.t = "int" /\ x.v >= n
    \/ x.t = "float" /\ x.tenths >= 10 * n
    \/ x.t = "float_inf"
    \/ x.t = "str" /\ int(x).ok /\ int(x).v >= n

\* x is a number, or a string that reads as one, and is at most n
NumberAtMost(x, n) ==
    \/ x.t = "int" /\ x.v <= n
    \/ x.t = "float" /\ x.tenths <= 10 * n
    \/ x.t = "str" /\ int(x).ok /\ int(x).v <= n

\* x is None or a string that does not read as a number
NotANumber(x) == x.t = "none" \/ (x.t = "str" /\ ~int(x).ok)

\* C17 as stated: validate_party_size accepts a value exactly when it
\* coerces to an integer in 1..20 and then returns that integer; 0 and any
\* smaller value are rejected with "at least 1", 21 and any larger value
\* with "cannot exceed 20", and a non-numeric or None value with "must be a
\* number".
C17_PartySizeRange ==
    Validated("party_size") =>
        /\ v_out.kind = "ok" <=> (int(v_in).ok /\ int(v_in).v \in 1..20)
        /\ v_out.kind = "ok" => v_out.value = PyInt(int(v_in).v)
        /\ NumberAtMost(v_in, 0) => RejectedWith("must be at least 1")
        /\ NumberAtLeast(v_in, 21) => RejectedWith("cannot exceed 20")
        /\ NotANumber(v_in) => RejectedWith("must be a number")

\* the last n characters of s
Last(s, n) == SubSeq(s, Len(s) - n + 1, Len(s))

\* C18: for every input validate_phone accepts, the output is "+1" followed
\* by the ten subscriber digits of the input (its last ten digits), and
\* validate_phone applied to that output returns it unchanged.
C18_PhoneNormalized ==
    (Validated("phone") /\ v_out.kind = "ok") =>
        /\ Len(DigitsOf(v_in.v)) >= 10
        /\ v_out.value = PyStr("+1" \o Last(DigitsOf(v_in.v), 10))
        /\ v_pc = "done" => v_again = v_out

\* C18 witness: "14155551234", with the 1 prefix, was normalized to
\* "+14155551234" and validated again.
C18_Witness ==
    /\ Validated("phone")
    /\ v_pc = "done"
    /\ v_in = PyStr("14155551234")
    /\ v_out = Returns(PyStr("+14155551234"))
    /\ v_again = v_out

\* the shapes YYYY-MM-DD, MM/DD/YYYY and M/D/YYYY (day and month of one or
\* two digits), d standing for a digit
DateShapes ==
    {"dddd-dd-dd", "dd/dd/dddd", "d/d/dddd", "d/dd/dddd", "dd/d/dddd"}

\* s has the shape: a digit where the shape has d, the same character
\* elsewhere
HasShape(s, shape) ==
    /\ Len(s) = Len(shape)
    /\ \A i \in 1..Len(shape) :
          IF Char(shape, i) = "d" THEN InClass(Char(s, i), DigitChars)
          ELSE Char(s, i) = Char(shape, i)

\* C19: validate_date accepts a value exactly when it is a string that,
\* trimmed, has one of the shapes YYYY-MM-DD, MM/DD/YYYY or M/D/YYYY, and
\* then returns the trimmed string; anything else raises a ValidationError.
C19_DateShape ==
    Validated("date") =>
        LET shaped == /\ v_in.t = "str"
                      /\ \E shape \in DateShapes : HasShape(Strip(v_in.v), shape)
        IN  /\ v_out.kind = "ok" <=> shaped
            /\ shaped => v_out.value = PyStr(Strip(v_in.v))
            /\ ~shaped => /\ v_out.kind = "error"
                          /\ v_out.err.cls = "ValidationError"

\* C19 witness: a padded M/D/YYYY date was returned trimmed, and a date
\* with no calendar meaning is accepted too.
C19_Witness ==
    /\ Validated("date")
    /\ \/ v_in = PyStr("\t12/25/2025\n") /\ v_out = Returns(PyStr("12/25/2025"))
       \/ v_in = PyStr("9999-99-99") /\ v_out = Returns(PyStr("9999-99-99"))

\* C20 as stated: validate_time raises a validation error for "25:00"
\* (hour above 23) and for "7:60 PM" (minute above 59).
C20_TimeRangeRejected ==
    (Validated("time") /\ v_in \in {PyStr("25:00"), PyStr("7:60 PM")}) =>
        /\ v_out.kind = "error"
        /\ v_out.err.cls = "ValidationError"

\* the environment is configured and the payload has the four required
\* fields
WellFormedRequest ==
    /\ m_env
    /\ \A k \in DOMAIN required_fields : m_payload[required_fields[k]] # Missing

\* what the Request Validator says of field f of the payload, as the
\* action hands it over (a stripped string)
FieldCheck(f) ==
    Validator(f, PyStr(Strip(str(m_payload[f]))))

\* the first of date, time, location that the Request Validator rejects
RejectedFields ==
    {f \in {"date", "time", "location"} : FieldCheck(f).kind = "error"}

\* the optional fields that are given and that the Request Validator
\* rejects
RejectedOptionalFields ==
    {f \in {"inbox_id", "phone", "first_name", "last_name"} :
        m_payload[f] # Missing /\ Validator(f, m_payload[f]).kind = "error"}

\* the request has been handled up to its validation at least
RequestValidated == m_pc \in {"create", "execute", "done"}

\* C14 as stated: for a payload whose date, time or location is rejected
\* by the Request Validator, make-reservation returns success false, error
\* "validation_error" and a message containing the validator's message.
C14_ValidationErrorResponse ==
    (RequestValidated /\ WellFormedRequest /\ RejectedFields # {}) =>
        /\ m_pc = "done"
        /\ m_response.success = FALSE
        /\ m_response.error = "validation_error"
        /\ \E f \in RejectedFields :
              Contains(m_response.message, FieldCheck(f).err.message)

\* C15 as stated: a request whose only invalid field is a party size
\* outside 1..20 fails with a categorized error of category
\* non_retryable_validation whose message names the bounds, and no browser
\* session creation is attempted.
C15_PartySizeFailsFast ==
    ( /\ RequestValidated
      /\ WellFormedRequest
      /\ RejectedFields = {}
      /\ RejectedOptionalFields = {}
      /\ int(PyStr(Strip(str(m_payload.party_size)))).ok
      /\ int(PyStr(Strip(str(m_payload.party_size)))).v \notin 1..20 ) =>
        /\ m_pc = "done"
        /\ IsAgentError(m_error)
        /\ m_error.category = "non_retryable_validation"
        /\ Contains(m_error.message, "1") \/ Contains(m_error.message, "20")
        /\ m_attempts = 0
        /\ m_created = 0

\* C16 as stated: a request carrying an email, phone or name that the
\* Request Validator rejects never reaches browser-session creation.
C16_AllFieldsValidatedFirst ==
    RejectedOptionalFields # {} => (m_attempts = 0 /\ m_created = 0)

\* the shapes of a time: one or two digits, a colon and two digits,
\* optionally followed by AM or PM (after at most one blank), or one or two
\* digits followed by AM or PM; d stands for a digit
TimeShapes ==
    {"d:dd", "dd:dd",
     "d:ddAM", "d:ddPM", "dd:ddAM", "dd:ddPM",
     "d:dd AM", "d:dd PM", "dd:dd AM", "dd:dd PM",
     "dAM", "dPM", "ddAM", "ddPM"}

RejectedValues(x) ==
    {x} \cup (IF x.t = "str"
              THEN {PyStr(Strip(x.v)), PyStr(Upper(Strip(x.v))),
                    PyStr(Lower(Strip(x.v)))}
              ELSE {})

\* C22: every rejection by a validator is a ValidationError of category
\* NonRetryableValidation whose context names the field and the rejected
\* value and whose message is not empty, and should_retry_error is false
\* for it.
C22_RejectionsAreValidationErrors ==
    \A fn \in ValidatorNames :
        (Validated(fn) /\ v_out.kind = "error") =>
            /\ v_out.err.cls = "ValidationError"
            /\ v_out.err.category = "non_retryable_validation"
            /\ v_out.err.context.field = fn
            /\ v_out.err.context.value \in RejectedValues(v_in)
            /\ v_out.err.message # ""
            /\ ~should_retry_error(v_out.err)


\* C23: categorize_exception returns RETRYABLE_BROWSER for every exception
\* whose message names a browser component, "playwright timeout" included.
C23_BrowserComponentIsBrowserError ==
    (/\ c_pc \in {"categorized", "done"}
     /\ AnyPattern(Lower(c_err.message), browser_patterns))
        => c_cat = "retryable_browser"


\* a probe, a call let through an Open breaker, is in flight
ProbeInFlight == \E d \in Callers : pc[d] = "inflight" /\ probe[d]

\* C26: a caller arriving while the breaker is HalfOpen and the probe is
\* still in flight is not let through to the wrapped operation.
C26_SingleProbe ==
    [][\A c \in Callers :
          (CallStep(c) /\ cb.state = "HALF_OPEN" /\ ProbeInFlight)
              => pc'[c] = "idle"]_vars

\* C28: whenever the breaker is Open, failure_count has reached
\* failure_threshold and last_failure_time is set.
C28_OpenMeansThresholdReached ==
    cb.state = "OPEN" =>
        /\ cb.failure_count >= cb.failure_threshold
        /\ cb.last_failure_time # NoTime

\* caller c's call ends with an exception the wrapper does not handle
AbortStep(c) == pc[c] = "inflight" /\ last'.c = c /\ last'.op = "abort"

\* caller c's call is rejected by the Open breaker
RejectStep(c) == pc[c] = "idle" /\ last'.c = c /\ last'.op = "reject"

\* C29: a call that ends neither with a return nor with an expected
\* exception, and a call rejected by the Open breaker, leave state,
\* failure_count and last_failure_time unchanged; an aborted HalfOpen
\* probe leaves the breaker HalfOpen.
C29_AbortAndRejectKeepBreaker ==
    [][\A c \in Callers :
          (AbortStep(c) \/ RejectStep(c)) =>
              /\ cb'.state = cb.state
              /\ cb'.failure_count = cb.failure_count
              /\ cb'.last_failure_time = cb.last_failure_time]_vars

\* C29 witness: the probe of a HalfOpen breaker was cancelled and the
\* breaker is still HalfOpen.
C29_Witness ==
    /\ last.op = "abort"
    /\ last.from = "HALF_OPEN"
    /\ probe[last.c]
    /\ cb.state = "HALF_OPEN"


\* C30: when the action has returned, every Kernel browser created for the
\* request, by a failed attempt or by the successful one, has been deleted.
C30_EveryBrowserDeleted ==
    m_pc = "done" => m_deleted = m_created


\* the number of waits of the retry loop that are over
CompletedWaits == Len(r_waits) - (IF r_pc = "sleep" THEN 1 ELSE 0)

\* C27: with jitter off, after failed attempt n, attempts remaining and the
\* failure retryable, production_retry waits exactly
\* min(min_wait_seconds * exponential_base^(n-1), max_wait_seconds), which
\* does not decrease with n and does not exceed max_wait_seconds, and
\* attempt n+1 does not start before the wait is over.
C27_ExponentialWait ==
    ~r_jitter =>
        /\ \A n \in 1..Len(r_waits) :
              /\ r_waits[n] = Min(r_min * Pow(r_base, n - 1), r_maxw)
              /\ r_waits[n] <= r_maxw
              /\ n > 1 => r_waits[n - 1] <= r_waits[n]
        /\ r_calls <= CompletedWaits + 1
        /\ \A n \in 1..(MaxAttempts - 1) :
              (/\ r_pc = "done"
               /\ n < r_max
               /\ \A i \in 1..n : RetryableFailure(r_script[i]))
                  => Len(r_waits) >= n


\* every attempt of the first call of the layered operation fails with a
\* retryable NetworkError
AllAttemptsFail ==
    \A i \in 1..r_max : r_script[i] = Fails(NetworkError("network timeout"))

\* C24: with CircuitBreaker(failure_threshold=3) around
\* production_retry(max_attempts=2) around safe_async_operation, one outer
\* call whose attempts all fail with a retryable NetworkError leaves the
\* breaker OPEN; after the recovery timeout the next outer call, on an
\* operation that has recovered, returns and leaves the breaker CLOSED.
C24_BreakerOpensAfterRetries ==
    (/\ cb.failure_threshold = InteractionThreshold
     /\ r_max = 2
     /\ AllAttemptsFail
     /\ ch_pc = "done")
        => /\ ch_call = 1 => cb.state = "OPEN"
           /\ ch_call = 2 => (ch_result = Returned /\ cb.state = "CLOSED")


\* C25: once an operation has at least 10 recorded operations and an error
\* rate above 10%, a "High Error Rate" alert of level ERROR naming the
\* operation has been sent to the alert handlers (8 failures followed by 2
\* successes give at least one).
C25_HighErrorRateAlerted ==
    \A o \in Operations :
        (/\ total_ops(operation_counts, o) >= 10
         /\ HighErrorRate(error_counts[o], total_ops(operation_counts, o)))
            => \E a \in alert_calls :
                  /\ a.level = "error"
                  /\ a.title = "High Error Rate: " \o o

=============================================================================
